---- MODULE Spec2Model ----
(***************************************************************************)
(* A model of the clipboard indicator's two cores:                         *)
(*   - MountLinkSync (src/sync.js): the D-Bus connection state machine,    *)
(*     together with the bus environment it talks to (the peer's name      *)
(*     ownership, the name watcher, proxy constructions in flight, the     *)
(*     signal subscriptions and property handlers that are really active); *)
(*   - ClipboardIndicator (src/extension.js): the history, the refresh     *)
(*     from the system clipboard and the echo suppression.                 *)
(* SpecSync and SpecSend drive the first, SpecHist the second; each treats *)
(* the other side as its environment: SpecSync counts the calls of         *)
(* onClipboardReceived, SpecHist records the calls of sync.send.           *)
(***************************************************************************)
EXTENDS Integers, Sequences, FiniteSets, TLC

\* ------------------------------------------------------------------ bounds

\* proxy constructions (name-appeared events) over one run
MaxProxies == 2

\* length of the histories given to Registry.write
MaxMem == 2

\* calls of Registry.write over one run
MaxWrites == 2

\* ------------------------------------------------------- program constants

ACTIVE_SEND_STATES == {"connected", "listening"}

MAX_SYNC_SIZE == 14 * 1024 * 1024

\* absent argument (null / undefined), absent property, no bus call
NoArg == "<none>"

NoCall == [method |-> NoArg]

NoReq == [mimetype |-> NoArg]

\* State strings the peer may advertise: the four it documents, the empty
\* string and one string outside the documented set.
PeerStates == {"connected", "listening", "error", "stopped", "", "paused"}

\* arguments of send: raw byte counts around the size ceiling
\* (11010048 raw bytes encode to exactly 14 MiB of base64; 15728640 = 15 MB)
SendLens == {0, 3, 11010048, 11010049, 15728640}

SendMimes == {NoArg, "", "text/plain"}

\* the bytes argument: a Uint8Array of some length, or null
NoBytes == [null |-> TRUE]

SendBytes == {[len |-> n] : n \in SendLens} \cup {NoBytes}

\* encoded length of a ClipboardReceived data argument
SignalLens == {4, 14680064, 14680068}

VARIABLES
    \* MountLinkSync fields
    enabled, state, destroyed, nameWatcherId, signalSubId, propChangedId,
    busConnection, proxy,
    \* the bus
    peerOwned,      \* the peer owns the bus name
    peerState,      \* its State property (NoArg while it is absent)
    busWatch,       \* the name watch: "none", or what it last reported
    ctor,           \* proxy constructions started, in order
    subs,           \* active ClipboardReceived subscriptions (by id)
    handlers,       \* proxies with a connected g-properties-changed handler
    \* what the last step did that is visible outside the client
    req,            \* the arguments of the send this step made, if it was one
    notes,          \* the values passed to onStateChanged by this step
    recv,           \* the calls of onClipboardReceived by this step
    call,           \* the bus call issued by this step
    \* history: sync was switched on from 'disabled' with no peer on the bus,
    \* and neither has changed since
    enabledAlone,
    \* the last step was a method or callback of the client that ended with
    \* an exception instead of returning
    threw,
    \* ClipboardIndicator fields and the module-level settings variable
    menuReady, cDestroyed, clipItemsRadioGroup, MAX_REGISTRY_LENGTH,
    refreshInProgress, lastReceivedHash, remoteHashTimeout,
    cacheWriteTimeout,
    \* its surroundings
    historySize,    \* the history-size key of the settings
    pendingRead,    \* what the registry read of _buildMenu will deliver
    clipboard,      \* the content of the system clipboard
    ownerChanged,   \* an owner-changed event is waiting for its handler
    got,            \* the entry the clipboard read in flight has received
    refreshes,      \* runs of _refreshIndicator past its guard, not finished
    \* what the last step did
    sent,           \* its call of sync.send
    wrote,          \* it called registry.write
    \* the cache directory and the Registry's I/O
    index,          \* registry.txt: missing, unparsable, or a list of items
    blobs,          \* the image files beside it: {[name, bytes]}
    indexWrites,    \* replace/write/close chains of Registry.write in flight
    blobWrites,     \* writes of writeEntryFile in flight
    mem,            \* the entries the caller of Registry.write holds
    writes,         \* calls of Registry.write so far
    readOut,        \* how the Registry.read since the last write ended
    blobDeletes,    \* files whose delete_async (deleteEntryFile) is in flight
    \* two entries and what comparing them gave
    entryA, entryB, eqOut

syncVars == <<enabled, state, destroyed, nameWatcherId, signalSubId,
              propChangedId, busConnection, proxy, peerOwned, peerState,
              busWatch, ctor, subs, handlers, req, notes, recv, call,
              enabledAlone, threw>>

histVars == <<menuReady, cDestroyed, clipItemsRadioGroup, MAX_REGISTRY_LENGTH,
              refreshInProgress, refreshes, lastReceivedHash, remoteHashTimeout,
              cacheWriteTimeout, historySize, pendingRead,
              clipboard, ownerChanged, got, sent, wrote>>

regVars == <<index, blobs, indexWrites, blobWrites, mem, writes, readOut>>

eqVars == <<entryA, entryB, eqOut>>

delVars == <<blobDeletes>>

vars == <<syncVars, histVars, regVars, eqVars, delVars>>

\* ------------------------------------------------------------ pure helpers

\* GLib.base64_encode: 4 characters for every started group of 3 bytes
Base64Len(n) == 4 * ((n + 2) \div 3)

\* The client as a record, so that the private methods compose.
Client == [enabled |-> enabled, state |-> state, destroyed |-> destroyed,
           nameWatcherId |-> nameWatcherId, signalSubId |-> signalSubId,
           propChangedId |-> propChangedId, busConnection |-> busConnection,
           proxy |-> proxy, busWatch |-> busWatch, subs |-> subs,
           handlers |-> handlers, notes |-> <<>>]

Commit(c) ==
    /\ enabled' = c.enabled
    /\ state' = c.state
    /\ destroyed' = c.destroyed
    /\ nameWatcherId' = c.nameWatcherId
    /\ signalSubId' = c.signalSubId
    /\ propChangedId' = c.propChangedId
    /\ busConnection' = c.busConnection
    /\ proxy' = c.proxy
    /\ busWatch' = c.busWatch
    /\ subs' = c.subs
    /\ handlers' = c.handlers
    /\ notes' = c.notes

\* #setState as it would be without the comparison with the current value
setState_always(c, s) == [c EXCEPT !.state = s, !.notes = Append(@, s)]

\* #setState: a notification for every change, none for the same value
setState(c, s) ==
    IF c.state = s THEN c
    ELSE [c EXCEPT !.state = s, !.notes = Append(@, s)]

\* #unsubSignals: the signal is unsubscribed through #busConnection (nothing
\* happens when that is null), the handler is disconnected from #proxy.
unsubSignals(c) ==
    LET c1 == IF c.signalSubId # 0
              THEN [c EXCEPT !.subs = IF c.busConnection
                                      THEN @ \ {c.signalSubId} ELSE @,
                             !.signalSubId = 0]
              ELSE c
    IN IF c1.propChangedId # 0 /\ c1.proxy # 0
       THEN [c1 EXCEPT !.handlers = @ \ {c1.proxy}, !.propChangedId = 0]
       ELSE c1

\* #unwatchBus
unwatchBus(c) ==
    LET c1 == unsubSignals(c)
        c2 == IF c1.nameWatcherId # 0
              THEN [c1 EXCEPT !.busWatch = "none", !.nameWatcherId = 0]
              ELSE c1
    IN [c2 EXCEPT !.busConnection = FALSE, !.proxy = 0]

\* #watchBus: Gio.bus_watch_name reports the name's state once after the
\* registration ("init") and then every change.
watchBus(c) ==
    IF c.nameWatcherId # 0 \/ c.destroyed \/ ~c.enabled THEN c
    ELSE [setState(c, "connecting") EXCEPT !.nameWatcherId = 1,
                                           !.busWatch = "init"]

\* the state a property value stands for (sync.js 211 and 219)
StateOf(v) == IF v = "" THEN "connected" ELSE v

Quiet == req' = NoReq /\ recv' = 0 /\ call' = NoCall

\* ------------------------------------------------------- the client's API

updateSettings(e) ==
    /\ Quiet
    /\ UNCHANGED <<peerOwned, peerState, ctor>>
    /\ IF e = enabled THEN Commit(Client)
       ELSE LET c == [Client EXCEPT !.enabled = e]
            IN IF ~e THEN Commit(setState(unwatchBus(c), "disabled"))
               ELSE Commit(watchBus(c))

\* send as it would be without the check of the state (sync.js 101)
send_anyState(mimetype, bytes) ==
    /\ req' = [mimetype |-> mimetype, bytes |-> bytes]
    /\ recv' = 0
    /\ Commit(Client)
    /\ UNCHANGED <<peerOwned, peerState, ctor>>
    /\ call' = IF proxy = 0 \/ ~enabled THEN NoCall
               ELSE IF bytes = NoBytes \/ mimetype = NoArg \/ mimetype = ""
                    THEN NoCall
               ELSE IF Base64Len(bytes.len) > MAX_SYNC_SIZE THEN NoCall
               ELSE [method |-> "SendClipboard", mimetype |-> mimetype,
                     datalen |-> Base64Len(bytes.len)]

\* send as it would be with the ceiling compared by >= (sync.js 106)
send_capInclusive(mimetype, bytes) ==
    /\ req' = [mimetype |-> mimetype, bytes |-> bytes]
    /\ recv' = 0
    /\ Commit(Client)
    /\ UNCHANGED <<peerOwned, peerState, ctor>>
    /\ call' = IF proxy = 0 \/ ~enabled THEN NoCall
               ELSE IF state \notin ACTIVE_SEND_STATES THEN NoCall
               ELSE IF bytes = NoBytes \/ mimetype = NoArg \/ mimetype = ""
                    THEN NoCall
               ELSE IF Base64Len(bytes.len) >= MAX_SYNC_SIZE THEN NoCall
               ELSE [method |-> "SendClipboard", mimetype |-> mimetype,
                     datalen |-> Base64Len(bytes.len)]

send(mimetype, bytes) ==
    /\ req' = [mimetype |-> mimetype, bytes |-> bytes]
    /\ recv' = 0
    /\ Commit(Client)
    /\ UNCHANGED <<peerOwned, peerState, ctor>>
    /\ call' = IF proxy = 0 \/ ~enabled THEN NoCall
               ELSE IF state \notin ACTIVE_SEND_STATES THEN NoCall
               ELSE IF bytes = NoBytes \/ mimetype = NoArg \/ mimetype = ""
                    THEN NoCall
               ELSE IF Base64Len(bytes.len) > MAX_SYNC_SIZE THEN NoCall
               ELSE [method |-> "SendClipboard", mimetype |-> mimetype,
                     datalen |-> Base64Len(bytes.len)]

destroy ==
    /\ ~destroyed
    /\ Quiet
    /\ UNCHANGED <<peerOwned, peerState, ctor>>
    /\ Commit(unwatchBus([Client EXCEPT !.destroyed = TRUE]))

\* ------------------------------------------------------ callbacks from GLib

\* #onNameAppeared: starts an asynchronous proxy construction
onNameAppeared ==
    /\ busWatch \in {"init", "vanished"}
    /\ peerOwned
    /\ Len(ctor) < MaxProxies
    /\ Quiet
    /\ UNCHANGED <<peerOwned, peerState>>
    /\ IF destroyed
       THEN /\ Commit([Client EXCEPT !.busWatch = "appeared"])
            /\ UNCHANGED ctor
       ELSE /\ Commit([unsubSignals(Client) EXCEPT !.busConnection = TRUE,
                                                   !.busWatch = "appeared"])
            /\ ctor' = Append(ctor, [st |-> "pending", cache |-> NoArg])

\* #onNameVanished
onNameVanished ==
    /\ busWatch \in {"init", "appeared"}
    /\ ~peerOwned
    /\ Quiet
    /\ UNCHANGED <<peerOwned, peerState, ctor>>
    /\ IF destroyed THEN Commit([Client EXCEPT !.busWatch = "vanished"])
       ELSE LET c1 == [unsubSignals(Client) EXCEPT !.busConnection = FALSE,
                                                   !.proxy = 0,
                                                   !.busWatch = "vanished"]
            IN Commit(IF c1.enabled THEN setState(c1, "disconnected") ELSE c1)

\* The construction's bus round trip ends: it failed, or the proxy exists,
\* with the State the peer answered in its property cache when the peer was
\* there to answer.
proxyLoad(i) ==
    /\ ctor[i].st = "pending"
    /\ Quiet
    /\ Commit(Client)
    /\ UNCHANGED <<peerOwned, peerState>>
    /\ \/ ctor' = [ctor EXCEPT ![i] = [st |-> "failed", cache |-> NoArg]]
       \/ \E v \in {NoArg} \cup (IF peerOwned THEN {peerState} ELSE {}) :
            ctor' = [ctor EXCEPT ![i] = [st |-> "loaded", cache |-> v]]

\* the completion callback of Gio.DBusProxy.new (sync.js 189-221)
proxyDone(i) ==
    /\ ctor[i].st \in {"loaded", "failed"}
    /\ Quiet
    /\ UNCHANGED <<peerOwned, peerState>>
    /\ ctor' = [ctor EXCEPT ![i] = [st |-> "done", cache |-> NoArg]]
    /\ IF destroyed \/ ~enabled THEN Commit(Client)
       ELSE IF ctor[i].st = "failed"
            THEN Commit(setState(Client, "disconnected"))
       ELSE LET c1 == [Client EXCEPT !.proxy = i,
                                     !.signalSubId = i,
                                     !.subs = @ \cup {i},
                                     !.propChangedId = i,
                                     !.handlers = @ \cup {i}]
                initialState == IF ctor[i].cache # NoArg
                                THEN StateOf(ctor[i].cache) ELSE "connecting"
            IN Commit(setState(c1, initialState))

\* The peer changes its State property: every connected handler runs
\* (sync.js 209-214), none of them looks at #destroyed or #enabled.
propertiesChanged(v) ==
    /\ peerOwned
    /\ peerState' = v
    /\ Quiet
    /\ UNCHANGED <<peerOwned, ctor>>
    /\ Commit(IF handlers # {} THEN setState(Client, StateOf(v)) ELSE Client)

\* #onSignal, once for every active subscription
onSignal(wellFormed, len) ==
    /\ peerOwned
    /\ req' = NoReq
    /\ call' = NoCall
    /\ Commit(Client)
    /\ UNCHANGED <<peerOwned, peerState, ctor>>
    /\ recv' = IF destroyed \/ ~wellFormed \/ len > MAX_SYNC_SIZE THEN 0
               ELSE Cardinality(subs)

\* ------------------------------------------------------------------ the bus

peerStart(v) ==
    /\ ~peerOwned
    /\ peerOwned' = TRUE
    /\ peerState' = v
    /\ Quiet
    /\ Commit(Client)
    /\ UNCHANGED ctor

peerStop ==
    /\ peerOwned
    /\ peerOwned' = FALSE
    /\ peerState' = NoArg
    /\ Quiet
    /\ Commit(Client)
    /\ UNCHANGED ctor

\* A proxy the client no longer references is collected at some time; its
\* handler goes with it.
collectProxy(p) ==
    /\ p \in handlers
    /\ p # proxy
    /\ Quiet
    /\ Commit([Client EXCEPT !.handlers = @ \ {p}])
    /\ UNCHANGED <<peerOwned, peerState, ctor>>

\* ------------------------------------------------------------ specification

\* the constructor (sync.js 69-76), for either value of `enabled`
InitSync ==
    /\ peerOwned \in BOOLEAN
    /\ peerState \in (IF peerOwned THEN PeerStates ELSE {NoArg})
    /\ enabled \in BOOLEAN
    /\ state = IF enabled THEN "connecting" ELSE "disabled"
    /\ notes = <<state>>
    /\ nameWatcherId = IF enabled THEN 1 ELSE 0
    /\ busWatch = IF enabled THEN "init" ELSE "none"
    /\ destroyed = FALSE
    /\ signalSubId = 0
    /\ propChangedId = 0
    /\ busConnection = FALSE
    /\ proxy = 0
    /\ ctor = <<>>
    /\ subs = {}
    /\ handlers = {}
    /\ req = NoReq
    /\ recv = 0
    /\ call = NoCall
    /\ enabledAlone = FALSE
    /\ threw = FALSE

\* the history variable, from what the step did
Alone ==
    enabledAlone' =
        IF ~enabled /\ enabled' /\ state = "disabled" /\ ~peerOwned' THEN TRUE
        ELSE IF peerOwned' \/ ~enabled' THEN FALSE
        ELSE enabledAlone

\* The whole life cycle; send is called with one well-formed payload.
\* a step of the sync client: the coordinator's variables stay
Sync(A) ==
    /\ A /\ Alone /\ threw' = FALSE
    /\ UNCHANGED <<histVars, regVars, eqVars, delVars>>

NextSync ==
    \/ \E e \in BOOLEAN : Sync(updateSettings(e))
    \/ Sync(send("text/plain", [len |-> 3]))
    \/ Sync(destroy)
    \/ Sync(onNameAppeared)
    \/ Sync(onNameVanished)
    \/ \E i \in 1..Len(ctor) : Sync(proxyLoad(i))
    \/ \E i \in 1..Len(ctor) : Sync(proxyDone(i))
    \/ \E v \in PeerStates : Sync(propertiesChanged(v))
    \/ \E w \in BOOLEAN, n \in SignalLens : Sync(onSignal(w, n))
    \/ \E v \in PeerStates : Sync(peerStart(v))
    \/ Sync(peerStop)
    \/ \E p \in 1..MaxProxies : Sync(collectProxy(p))

\* send with every argument, in every state one connection can bring the
\* client to (a second proxy construction adds no state send reads).
NextSend ==
    \/ \E e \in BOOLEAN : Sync(updateSettings(e))
    \/ \E m \in SendMimes, b \in SendBytes : Sync(send(m, b))
    \/ Sync(destroy)
    \/ Sync((ctor = <<>> /\ onNameAppeared))
    \/ Sync(onNameVanished)
    \/ \E i \in 1..Len(ctor) : Sync(proxyLoad(i))
    \/ \E i \in 1..Len(ctor) : Sync(proxyDone(i))
    \/ \E v \in PeerStates : Sync(propertiesChanged(v))
    \/ \E v \in PeerStates : Sync(peerStart(v))
    \/ Sync(peerStop)


\* ------------------------------------------- ClipboardEntry (registry.js)

ImageTypes == {"image/png", "image/jpeg", "image/gif", "image/webp"}

\* the types #getClipboardContent asks for (all of them text or image)
MIMETYPES == {"text/plain;charset=utf-8", "UTF8_STRING", "text/plain",
              "STRING", "image/png", "image/jpeg", "image/gif", "image/webp"}

isImage(m) == m \in ImageTypes

ClipboardEntry(m, b) == [mimetype |-> m, bytes |-> b]

NoEntry == ClipboardEntry(NoArg, <<>>)

\* GLib.Bytes.hash: h = 5381, then h * 33 + (signed char) for every byte.
\* For the payloads used here (at most 3 bytes) the value stays below 2^32.
RECURSIVE hashFrom(_, _)
hashFrom(h, b) ==
    IF b = <<>> THEN h
    ELSE hashFrom(h * 33 + (IF Head(b) > 127 THEN Head(b) - 256 ELSE Head(b)),
                  Tail(b))

hash(b) == hashFrom(5381, b)

\* String(n) as character codes
RECURSIVE Digits(_)
Digits(n) == IF n < 10 THEN <<48 + n>> ELSE Digits(n \div 10) \o <<48 + (n % 10)>>

\* TextDecoder.decode, for ASCII bytes, the three bytes of U+FFFD, and bytes
\* above 127 that begin no well-formed sequence (each of those decodes to
\* U+FFFD)
RECURSIVE decode(_)
decode(b) ==
    IF b = <<>> THEN <<>>
    ELSE IF Head(b) < 128 THEN <<Head(b)>> \o decode(Tail(b))
    ELSE IF Len(b) >= 3 /\ SubSeq(b, 1, 3) = <<239, 191, 189>>
    THEN <<65533>> \o decode(SubSeq(b, 4, Len(b)))
    ELSE <<65533>> \o decode(Tail(b))

\* getStringValue: the decoded text, or "[Image <hash>]"
getStringValue(e) ==
    IF isImage(e.mimetype)
    THEN <<91, 73, 109, 97, 103, 101, 32>> \o Digits(hash(e.bytes)) \o <<93>>
    ELSE decode(e.bytes)

\* equals as it would be if only the receiver's type chose the comparison
equals_oneSided(a, b) ==
    IF isImage(a.mimetype)
    THEN hash(a.bytes) = hash(b.bytes) /\ Len(a.bytes) = Len(b.bytes)
    ELSE getStringValue(a) = getStringValue(b)

equals(a, b) ==
    IF isImage(a.mimetype) /\ isImage(b.mimetype)
    THEN hash(a.bytes) = hash(b.bytes) /\ Len(a.bytes) = Len(b.bytes)
    ELSE getStringValue(a) = getStringValue(b)

\* ------------------------------------------------------ the inputs it gets

\* "hi" and "ho" as text, "hi" as UTF8_STRING, and a two-byte image:
\* what the peer sends and what applications copy
Contents == {ClipboardEntry("text/plain;charset=utf-8", <<104, 105>>),
             ClipboardEntry("UTF8_STRING", <<104, 105>>),
             ClipboardEntry("text/plain;charset=utf-8", <<104, 111>>),
             ClipboardEntry("image/png", <<1, 2>>)}

\* an application may also offer a type the indicator does not read
Copies == Contents \cup {ClipboardEntry("text/html", <<104, 105>>)}

\* size of the history-size setting's range in the model (1..MaxHistorySize)
MaxHistorySize == 2

\* entries in the persisted index at startup
MaxIndex == 3

NoDup(es) ==
    \A i, j \in 1..Len(es) : i # j => ~equals(es[i], es[j])

RECURSIVE SeqsUpTo(_, _)
SeqsUpTo(S, n) ==
    IF n = 0 THEN {<<>>}
    ELSE LET shorter == SeqsUpTo(S, n - 1)
         IN shorter \cup {Append(q, x) : q \in shorter, x \in S}

\* the persisted indexes the program can have written: no two equal entries
Indexes == {ix \in SeqsUpTo(Contents, MaxIndex) : NoDup(ix)}

\* the end of Registry.read as it would be if it cut from the back
read_fromBack(entries, maxSize) ==
    IF maxSize # 0 /\ Len(entries) > maxSize THEN SubSeq(entries, 1, maxSize)
    ELSE entries

\* the end of Registry.read (registry.js 70-75): the newest maxSize entries
RECURSIVE read(_, _)
read(entries, maxSize) ==
    IF maxSize # 0 /\ Len(entries) > maxSize THEN read(Tail(entries), maxSize)
    ELSE entries

\* the system clipboard: one offered type, its bytes, and who put it there
Clip(e, who) == [mimetype |-> e.mimetype, bytes |-> e.bytes, origin |-> who]

\* St.Clipboard.set_text('')
ClipCleared == Clip(ClipboardEntry("text/plain;charset=utf-8", <<>>), "local")

NoHash == <<-1>>

NoGot == [entry |-> NoEntry, origin |-> "local"]

NoSend == NoGot

\* one get_content round of #getClipboardContent on clipboard content c
getClipboardContent(c) ==
    IF c.mimetype \in MIMETYPES /\ Len(c.bytes) > 0
    THEN ClipboardEntry(IF c.mimetype = "UTF8_STRING"
                        THEN "text/plain;charset=utf-8" ELSE c.mimetype,
                        c.bytes)
    ELSE NoEntry

\* ------------------------------------------------ the menu items (history)

Entries(items) == [k \in 1..Len(items) |-> items[k].entry]

\* _selectMenuItem: the DOT goes to item i
selectMenuItem(items, i) ==
    [k \in 1..Len(items) |-> [items[k] EXCEPT !.currentlySelected = (k = i)]]

\* _addEntry(entry, true, false)
addEntry(items, entry) ==
    selectMenuItem(Append(items, [entry |-> entry,
                                  currentlySelected |-> FALSE]),
                   Len(items) + 1)

\* _removeOldestEntries under a given maximum: what is left, and whether a
\* selected item went (the clipboard is then cleared)
removeOldestEntries(items, max) ==
    LET n == IF Len(items) > max THEN Len(items) - max ELSE 0
    IN [items |-> SubSeq(items, n + 1, Len(items)),
        cleared |-> \E k \in 1..n : items[k].currentlySelected]

\* the dedup loops without their equals test: nothing is ever found
indexOfEqual_none(items, entry) == 0

\* the item the dedup loops find for an entry (0: none)
indexOfEqual(items, entry) ==
    IF \E k \in 1..Len(items) : equals(items[k].entry, entry)
    THEN CHOOSE k \in 1..Len(items) :
            /\ equals(items[k].entry, entry)
            /\ \A j \in 1..(k - 1) : ~equals(items[j].entry, entry)
    ELSE 0

Silent == sent' = NoSend /\ wrote' = FALSE

\* ------------------------------------------------------------- the handlers

\* the rest of _buildMenu after the registry read, then the continuation in
\* _init: _setupListener, _setupAutoClear, _initSync.  _setupAutoClear
\* fetches the settings; when the auto-clear time has passed (expired) it
\* clears the history; when its write of the next clear time changes the
\* stored value (changed), the settings' changed signal runs
\* _onSettingsChange, which trims.
buildMenu(expired, changed) ==
    /\ pendingRead.busy
    /\ expired => changed
    /\ pendingRead' = [busy |-> FALSE, entries |-> <<>>]
    /\ Silent
    /\ UNCHANGED <<cDestroyed, refreshInProgress, refreshes, lastReceivedHash,
                   remoteHashTimeout, historySize, got>>
    /\ IF cDestroyed
       THEN UNCHANGED <<menuReady, clipItemsRadioGroup, MAX_REGISTRY_LENGTH,
                        cacheWriteTimeout, clipboard, ownerChanged>>
       ELSE LET loaded == [k \in 1..Len(pendingRead.entries) |->
                              [entry |-> pendingRead.entries[k],
                               currentlySelected |-> FALSE]]
                n == Len(loaded)
                items == IF n > 0 THEN selectMenuItem(loaded, n) ELSE loaded
                trimmed == removeOldestEntries(items, historySize)
            IN /\ menuReady' = TRUE
               /\ MAX_REGISTRY_LENGTH' = historySize
               /\ clipItemsRadioGroup' = IF expired THEN <<>>
                                         ELSE IF changed THEN trimmed.items
                                         ELSE items
               /\ cacheWriteTimeout' = (changed \/ cacheWriteTimeout)
               /\ IF n > 0
                  THEN /\ clipboard' =
                             IF expired \/ (changed /\ trimmed.cleared)
                             THEN ClipCleared
                             ELSE Clip(items[n].entry, "local")
                       /\ ownerChanged' = TRUE
                  ELSE UNCHANGED <<clipboard, ownerChanged>>

\* _onRemoteClipboard
onRemoteClipboard(mimetype, bytes) ==
    /\ Silent
    /\ UNCHANGED <<menuReady, cDestroyed, MAX_REGISTRY_LENGTH,
                   refreshInProgress, refreshes, historySize, pendingRead, got>>
    /\ IF ~menuReady \/ cDestroyed
       THEN UNCHANGED <<clipItemsRadioGroup, lastReceivedHash,
                        remoteHashTimeout, cacheWriteTimeout, clipboard,
                        ownerChanged>>
       ELSE LET entry == ClipboardEntry(mimetype, bytes)
                i == indexOfEqual(clipItemsRadioGroup, entry)
                trimmed == removeOldestEntries(
                               addEntry(clipItemsRadioGroup, entry),
                               MAX_REGISTRY_LENGTH)
            IN /\ lastReceivedHash' = getStringValue(entry)
               /\ remoteHashTimeout' = TRUE
               /\ ownerChanged' = TRUE
               /\ IF i # 0
                  THEN /\ clipItemsRadioGroup' =
                              selectMenuItem(clipItemsRadioGroup, i)
                       /\ clipboard' = Clip(entry, "peer")
                       /\ UNCHANGED cacheWriteTimeout
                  ELSE /\ clipItemsRadioGroup' = trimmed.items
                       /\ clipboard' = IF trimmed.cleared THEN ClipCleared
                                       ELSE Clip(entry, "peer")
                       /\ cacheWriteTimeout' = TRUE

\* the timer of _clearRemoteHash
clearRemoteHash ==
    /\ remoteHashTimeout
    /\ remoteHashTimeout' = FALSE
    /\ lastReceivedHash' = NoHash
    /\ Silent
    /\ UNCHANGED <<menuReady, cDestroyed, clipItemsRadioGroup,
                   MAX_REGISTRY_LENGTH, refreshInProgress, refreshes, cacheWriteTimeout,
                   historySize, pendingRead, clipboard, ownerChanged, got>>

\* _refreshIndicator up to its await, as it would be without the test of
\* #refreshInProgress in its guard
refreshIndicator_unguarded ==
    /\ ownerChanged
    /\ ownerChanged' = FALSE
    /\ Silent
    /\ refreshInProgress' =
          (refreshInProgress \/ (menuReady /\ ~cDestroyed))
    /\ refreshes' = IF menuReady /\ ~cDestroyed
                    THEN refreshes + 1 ELSE refreshes
    /\ UNCHANGED <<menuReady, cDestroyed, clipItemsRadioGroup,
                   MAX_REGISTRY_LENGTH, lastReceivedHash, remoteHashTimeout,
                   cacheWriteTimeout, historySize, pendingRead, clipboard,
                   got>>

\* the owner-changed handler: _refreshIndicator up to its await
refreshIndicator ==
    /\ ownerChanged
    /\ ownerChanged' = FALSE
    /\ Silent
    /\ refreshInProgress' =
          (refreshInProgress \/ (menuReady /\ ~cDestroyed))
    /\ refreshes' = IF menuReady /\ ~refreshInProgress /\ ~cDestroyed
                    THEN refreshes + 1 ELSE refreshes
    /\ UNCHANGED <<menuReady, cDestroyed, clipItemsRadioGroup,
                   MAX_REGISTRY_LENGTH, lastReceivedHash, remoteHashTimeout,
                   cacheWriteTimeout, historySize, pendingRead, clipboard,
                   got>>

\* a get_content of the read in flight receives the clipboard's content
getContent ==
    /\ refreshInProgress
    /\ got = NoGot
    /\ getClipboardContent(clipboard) # NoEntry
    /\ got' = [entry |-> getClipboardContent(clipboard),
               origin |-> clipboard.origin]
    /\ Silent
    /\ UNCHANGED <<menuReady, cDestroyed, clipItemsRadioGroup,
                   MAX_REGISTRY_LENGTH, refreshInProgress, refreshes, lastReceivedHash,
                   remoteHashTimeout, cacheWriteTimeout, historySize,
                   pendingRead, clipboard, ownerChanged>>

\* _refreshIndicator from its await on, as it would be if every entry read
\* while an inbound identity is remembered counted as coming from the peer
refreshDone_suppressAll ==
    /\ refreshInProgress
    /\ refreshInProgress' = FALSE
    /\ refreshes' = refreshes - 1
    /\ got' = NoGot
    /\ wrote' = FALSE
    /\ UNCHANGED <<menuReady, cDestroyed, MAX_REGISTRY_LENGTH,
                   lastReceivedHash, remoteHashTimeout, historySize,
                   pendingRead, ownerChanged>>
    /\ IF got.entry = NoEntry \/ cDestroyed
       THEN /\ sent' = NoSend
            /\ UNCHANGED <<clipItemsRadioGroup, cacheWriteTimeout, clipboard>>
       ELSE LET entry == got.entry
                isFromRemote == lastReceivedHash # NoHash
                i == indexOfEqual(clipItemsRadioGroup, entry)
                trimmed == removeOldestEntries(
                               addEntry(clipItemsRadioGroup, entry),
                               MAX_REGISTRY_LENGTH)
            IN /\ sent' = IF isFromRemote THEN NoSend ELSE got
               /\ IF i # 0
                  THEN /\ clipItemsRadioGroup' =
                              selectMenuItem(clipItemsRadioGroup, i)
                       /\ UNCHANGED <<cacheWriteTimeout, clipboard>>
                  ELSE /\ clipItemsRadioGroup' = trimmed.items
                       /\ cacheWriteTimeout' = TRUE
                       /\ clipboard' = IF trimmed.cleared THEN ClipCleared
                                       ELSE clipboard

\* _refreshIndicator from its await on, as it would be if it did not look at
\* _destroyed after the read
refreshDone_afterDestroy ==
    /\ refreshInProgress
    /\ refreshInProgress' = FALSE
    /\ refreshes' = refreshes - 1
    /\ got' = NoGot
    /\ wrote' = FALSE
    /\ UNCHANGED <<menuReady, cDestroyed, MAX_REGISTRY_LENGTH,
                   lastReceivedHash, remoteHashTimeout, historySize,
                   pendingRead, ownerChanged>>
    /\ IF got.entry = NoEntry
       THEN /\ sent' = NoSend
            /\ UNCHANGED <<clipItemsRadioGroup, cacheWriteTimeout, clipboard>>
       ELSE LET entry == got.entry
                isFromRemote == /\ lastReceivedHash # NoHash
                                /\ getStringValue(entry) = lastReceivedHash
                i == indexOfEqual(clipItemsRadioGroup, entry)
                trimmed == removeOldestEntries(
                               addEntry(clipItemsRadioGroup, entry),
                               MAX_REGISTRY_LENGTH)
            IN /\ sent' = IF isFromRemote THEN NoSend ELSE got
               /\ IF i # 0
                  THEN /\ clipItemsRadioGroup' =
                              selectMenuItem(clipItemsRadioGroup, i)
                       /\ UNCHANGED <<cacheWriteTimeout, clipboard>>
                  ELSE /\ clipItemsRadioGroup' = trimmed.items
                       /\ cacheWriteTimeout' = TRUE
                       /\ clipboard' = IF trimmed.cleared THEN ClipCleared
                                       ELSE clipboard

\* _refreshIndicator from its await on, as it would be without the safety
\* timeout of #getClipboardContent: it goes on when the owner has answered
refreshDone_whenAnswered ==
    /\ refreshInProgress
    /\ got # NoGot
    /\ refreshInProgress' = FALSE
    /\ refreshes' = refreshes - 1
    /\ got' = NoGot
    /\ wrote' = FALSE
    /\ UNCHANGED <<menuReady, cDestroyed, MAX_REGISTRY_LENGTH,
                   lastReceivedHash, remoteHashTimeout, historySize,
                   pendingRead, ownerChanged>>
    /\ IF got.entry = NoEntry \/ cDestroyed
       THEN /\ sent' = NoSend
            /\ UNCHANGED <<clipItemsRadioGroup, cacheWriteTimeout, clipboard>>
       ELSE LET entry == got.entry
                isFromRemote == /\ lastReceivedHash # NoHash
                                /\ getStringValue(entry) = lastReceivedHash
                i == indexOfEqual(clipItemsRadioGroup, entry)
                trimmed == removeOldestEntries(
                               addEntry(clipItemsRadioGroup, entry),
                               MAX_REGISTRY_LENGTH)
            IN /\ sent' = IF isFromRemote THEN NoSend ELSE got
               /\ IF i # 0
                  THEN /\ clipItemsRadioGroup' =
                              selectMenuItem(clipItemsRadioGroup, i)
                       /\ UNCHANGED <<cacheWriteTimeout, clipboard>>
                  ELSE /\ clipItemsRadioGroup' = trimmed.items
                       /\ cacheWriteTimeout' = TRUE
                       /\ clipboard' = IF trimmed.cleared THEN ClipCleared
                                       ELSE clipboard

\* _refreshIndicator from its await on: the read has delivered `got`
\* (nothing, when no type had content or every round timed out)
refreshDone ==
    /\ refreshInProgress
    /\ refreshInProgress' = FALSE
    /\ refreshes' = refreshes - 1
    /\ got' = NoGot
    /\ wrote' = FALSE
    /\ UNCHANGED <<menuReady, cDestroyed, MAX_REGISTRY_LENGTH,
                   lastReceivedHash, remoteHashTimeout, historySize,
                   pendingRead, ownerChanged>>
    /\ IF got.entry = NoEntry \/ cDestroyed
       THEN /\ sent' = NoSend
            /\ UNCHANGED <<clipItemsRadioGroup, cacheWriteTimeout, clipboard>>
       ELSE LET entry == got.entry
                isFromRemote == /\ lastReceivedHash # NoHash
                                /\ getStringValue(entry) = lastReceivedHash
                i == indexOfEqual(clipItemsRadioGroup, entry)
                trimmed == removeOldestEntries(
                               addEntry(clipItemsRadioGroup, entry),
                               MAX_REGISTRY_LENGTH)
            IN /\ sent' = IF isFromRemote THEN NoSend ELSE got
               /\ IF i # 0
                  THEN /\ clipItemsRadioGroup' =
                              selectMenuItem(clipItemsRadioGroup, i)
                       /\ UNCHANGED <<cacheWriteTimeout, clipboard>>
                  ELSE /\ clipItemsRadioGroup' = trimmed.items
                       /\ cacheWriteTimeout' = TRUE
                       /\ clipboard' = IF trimmed.cleared THEN ClipCleared
                                       ELSE clipboard

\* a get_content of the read in flight throws: the await rejects, the catch
\* block logs, the finally block clears the flag
refreshThrows ==
    /\ refreshInProgress
    /\ got = NoGot
    /\ refreshInProgress' = FALSE
    /\ refreshes' = refreshes - 1
    /\ Silent
    /\ UNCHANGED <<menuReady, cDestroyed, clipItemsRadioGroup,
                   MAX_REGISTRY_LENGTH, lastReceivedHash, remoteHashTimeout,
                   cacheWriteTimeout, historySize, pendingRead, clipboard,
                   ownerChanged, got>>

\* a menu item is activated: _selectMenuItem(item), which sets the clipboard
activate(i) ==
    /\ menuReady /\ ~cDestroyed
    /\ i \in 1..Len(clipItemsRadioGroup)
    /\ clipItemsRadioGroup' = selectMenuItem(clipItemsRadioGroup, i)
    /\ clipboard' = Clip(clipItemsRadioGroup[i].entry, "local")
    /\ ownerChanged' = TRUE
    /\ Silent
    /\ UNCHANGED <<menuReady, cDestroyed, MAX_REGISTRY_LENGTH,
                   refreshInProgress, refreshes, lastReceivedHash, remoteHashTimeout,
                   cacheWriteTimeout, historySize, pendingRead, got>>

\* _removeEntry as it would be without its _updateCache()
removeEntry_unsaved(i) ==
    /\ menuReady /\ ~cDestroyed
    /\ i \in 1..Len(clipItemsRadioGroup)
    /\ clipItemsRadioGroup' =
          SubSeq(clipItemsRadioGroup, 1, i - 1)
              \o SubSeq(clipItemsRadioGroup, i + 1, Len(clipItemsRadioGroup))
    /\ IF clipItemsRadioGroup[i].currentlySelected
       THEN clipboard' = ClipCleared /\ ownerChanged' = TRUE
       ELSE UNCHANGED <<clipboard, ownerChanged>>
    /\ Silent
    /\ UNCHANGED <<menuReady, cDestroyed, MAX_REGISTRY_LENGTH,
                   refreshInProgress, refreshes, lastReceivedHash, remoteHashTimeout,
                   cacheWriteTimeout, historySize, pendingRead, got>>

\* _removeEntry
removeEntry(i) ==
    /\ menuReady /\ ~cDestroyed
    /\ i \in 1..Len(clipItemsRadioGroup)
    /\ clipItemsRadioGroup' =
          SubSeq(clipItemsRadioGroup, 1, i - 1)
              \o SubSeq(clipItemsRadioGroup, i + 1, Len(clipItemsRadioGroup))
    /\ IF clipItemsRadioGroup[i].currentlySelected
       THEN clipboard' = ClipCleared /\ ownerChanged' = TRUE
       ELSE UNCHANGED <<clipboard, ownerChanged>>
    /\ cacheWriteTimeout' = TRUE
    /\ Silent
    /\ UNCHANGED <<menuReady, cDestroyed, MAX_REGISTRY_LENGTH,
                   refreshInProgress, refreshes, lastReceivedHash, remoteHashTimeout,
                   historySize, pendingRead, got>>

\* _clearHistory, from the menu or from the auto-clear timer
clearHistory ==
    /\ menuReady /\ ~cDestroyed
    /\ clipItemsRadioGroup' = <<>>
    /\ IF \E k \in 1..Len(clipItemsRadioGroup) :
             clipItemsRadioGroup[k].currentlySelected
       THEN clipboard' = ClipCleared /\ ownerChanged' = TRUE
       ELSE UNCHANGED <<clipboard, ownerChanged>>
    /\ cacheWriteTimeout' = TRUE
    /\ Silent
    /\ UNCHANGED <<menuReady, cDestroyed, MAX_REGISTRY_LENGTH,
                   refreshInProgress, refreshes, lastReceivedHash, remoteHashTimeout,
                   historySize, pendingRead, got>>

\* the history-size setting changes; _onSettingsChange runs while the
\* indicator is connected to the settings
onSettingsChange(n) ==
    /\ n # historySize
    /\ historySize' = n
    /\ Silent
    /\ UNCHANGED <<menuReady, cDestroyed, refreshInProgress, refreshes, lastReceivedHash,
                   remoteHashTimeout, pendingRead, got>>
    /\ IF cDestroyed \/ ~menuReady
       THEN UNCHANGED <<clipItemsRadioGroup, MAX_REGISTRY_LENGTH,
                        cacheWriteTimeout, clipboard, ownerChanged>>
       ELSE LET trimmed == removeOldestEntries(clipItemsRadioGroup, n)
            IN /\ MAX_REGISTRY_LENGTH' = n
               /\ clipItemsRadioGroup' = trimmed.items
               /\ cacheWriteTimeout' = TRUE
               /\ IF trimmed.cleared
                  THEN clipboard' = ClipCleared /\ ownerChanged' = TRUE
                  ELSE UNCHANGED <<clipboard, ownerChanged>>

\* the timer of _updateCache: _flushCache
flushCache ==
    /\ cacheWriteTimeout
    /\ cacheWriteTimeout' = FALSE
    /\ sent' = NoSend
    /\ wrote' = (menuReady /\ ~cDestroyed)
    /\ UNCHANGED <<menuReady, cDestroyed, clipItemsRadioGroup,
                   MAX_REGISTRY_LENGTH, refreshInProgress, refreshes, lastReceivedHash,
                   remoteHashTimeout, historySize, pendingRead, clipboard,
                   ownerChanged, got>>

\* ClipboardIndicator.destroy as it would be if _flushCache did not look at
\* _menuReady
destroyIndicator_flushAlways ==
    /\ ~cDestroyed
    /\ cDestroyed' = TRUE
    /\ wrote' = TRUE
    /\ sent' = NoSend
    /\ cacheWriteTimeout' = FALSE
    /\ remoteHashTimeout' = FALSE
    /\ ownerChanged' = FALSE
    /\ UNCHANGED <<menuReady, clipItemsRadioGroup, MAX_REGISTRY_LENGTH,
                   refreshInProgress, refreshes, lastReceivedHash, historySize,
                   pendingRead, clipboard, got>>

\* ClipboardIndicator.destroy: flush, latch, disconnect, clear the timers
destroyIndicator ==
    /\ ~cDestroyed
    /\ cDestroyed' = TRUE
    /\ wrote' = menuReady
    /\ sent' = NoSend
    /\ cacheWriteTimeout' = FALSE
    /\ remoteHashTimeout' = FALSE
    /\ ownerChanged' = FALSE
    /\ UNCHANGED <<menuReady, clipItemsRadioGroup, MAX_REGISTRY_LENGTH,
                   refreshInProgress, refreshes, lastReceivedHash, historySize,
                   pendingRead, clipboard, got>>

\* an application takes the clipboard
copy(c) ==
    /\ clipboard' = Clip(c, "local")
    /\ ownerChanged' = ~cDestroyed
    /\ Silent
    /\ UNCHANGED <<menuReady, cDestroyed, clipItemsRadioGroup,
                   MAX_REGISTRY_LENGTH, refreshInProgress, refreshes, lastReceivedHash,
                   remoteHashTimeout, cacheWriteTimeout, historySize,
                   pendingRead, got>>

\* ClipboardIndicator._init: the settings are fetched, the registry read of
\* _buildMenu is under way
InitHist ==
    /\ menuReady = FALSE
    /\ cDestroyed = FALSE
    /\ clipItemsRadioGroup = <<>>
    /\ historySize \in 1..MaxHistorySize
    /\ MAX_REGISTRY_LENGTH = historySize
    /\ refreshInProgress = FALSE
    /\ refreshes = 0
    /\ lastReceivedHash = NoHash
    /\ remoteHashTimeout = FALSE
    /\ cacheWriteTimeout = FALSE
    /\ \E ix \in Indexes :
          pendingRead = [busy |-> TRUE,
                         entries |-> read(ix, MAX_REGISTRY_LENGTH)]
    /\ clipboard = ClipCleared
    /\ ownerChanged = FALSE
    /\ got = NoGot
    /\ sent = NoSend
    /\ wrote = FALSE

\* a step of the coordinator: the sync client's variables stay
Hist(A) == A /\ UNCHANGED <<syncVars, regVars, eqVars, delVars>>

NextHist ==
    \/ \E expired, changed \in BOOLEAN : Hist(buildMenu(expired, changed))
    \/ \E c \in Contents : Hist(onRemoteClipboard(c.mimetype, c.bytes))
    \/ Hist(clearRemoteHash)
    \/ Hist(refreshIndicator)
    \/ Hist(getContent)
    \/ Hist(refreshDone)
    \/ \E i \in 1..MaxIndex : Hist(activate(i))
    \/ \E i \in 1..MaxIndex : Hist(removeEntry(i))
    \/ Hist(clearHistory)
    \/ \E n \in 1..MaxHistorySize : Hist(onSettingsChange(n))
    \/ Hist(flushCache)
    \/ Hist(destroyIndicator)
    \/ \E c \in Copies : Hist(copy(c))

\* ---------------------------------------------------- Registry (registry.js)

\* mimetypes for which __isText holds: they start with 'text/', or are
\* STRING or UTF8_STRING
TextTypes == {"text/plain;charset=utf-8", "text/plain", "text/html",
              "STRING", "UTF8_STRING"}

isText(m) == m \in TextTypes

\* TextEncoder.encode of a string of ASCII characters and U+FFFD
RECURSIVE encode(_)
encode(str) ==
    IF str = <<>> THEN <<>>
    ELSE (IF Head(str) < 128 THEN <<Head(str)>> ELSE <<239, 191, 189>>)
         \o encode(Tail(str))

\* getEntryFilename: the file is named by the unsigned hash of the bytes
\* (the directory is the same for all)
getEntryFilename(entry) == hash(entry.bytes)

Blob(name, bytes) == [name |-> name, bytes |-> bytes]

\* one element of the array Registry.write serialises: text entries carry
\* their string, image entries the path of their file, others nothing
Item(entry) ==
    IF isText(entry.mimetype)
    THEN [mimetype |-> entry.mimetype, kind |-> "text",
          text |-> getStringValue(entry), path |-> 0]
    ELSE IF isImage(entry.mimetype)
    THEN [mimetype |-> entry.mimetype, kind |-> "path",
          text |-> <<>>, path |-> getEntryFilename(entry)]
    ELSE [mimetype |-> entry.mimetype, kind |-> "none",
          text |-> <<>>, path |-> 0]

Items(entries) == [k \in 1..Len(entries) |-> Item(entries[k])]

\* ClipboardEntry.fromJSON on one item, with the files there are.  strict:
\* GLib.file_test throws when json.contents is undefined (otherwise it
\* answers false); ioFail: loading an existing file fails.
fromJSON(json, files, strict, ioFail) ==
    LET mimetype == IF json.mimetype = "" THEN "text/plain;charset=utf-8"
                    ELSE json.mimetype
    IN IF isText(mimetype)
       THEN [st |-> "entry",
             entry |-> ClipboardEntry(mimetype,
                          encode(IF json.kind = "text" THEN json.text
                                 ELSE <<>>))]
       ELSE IF json.kind = "none"
       THEN [st |-> IF strict THEN "reject" ELSE "null", entry |-> NoEntry]
       ELSE IF json.kind = "text"
               \/ ~\E f \in files : f.name = json.path
       THEN [st |-> "null", entry |-> NoEntry]
       ELSE IF ioFail
       THEN [st |-> "reject", entry |-> NoEntry]
       ELSE [st |-> "entry",
             entry |-> ClipboardEntry(mimetype,
                          (CHOOSE f \in files : f.name = json.path).bytes)]

\* entries.filter(e => e !== null)
RECURSIVE filterNull(_)
filterNull(rs) ==
    IF rs = <<>> THEN <<>>
    ELSE (IF Head(rs).st = "entry" THEN <<Head(rs).entry>> ELSE <<>>)
         \o filterNull(Tail(rs))

\* bytes in a megabyte, as the size guard of read counts them
MB == 1024 * 1024

\* how a Registry.read ended: the list its promise resolved to, and whether
\* it warned 'cache file too large, resetting'
Resolved(entries) == [st |-> "resolved", entries |-> entries, warned |-> FALSE]

Reset == [st |-> "resolved", entries |-> <<>>, warned |-> TRUE]

NoRead == [st |-> "none", entries |-> <<>>, warned |-> FALSE]

\* the size guard of read as it would be with >= for >
readResets_inclusive(maxCacheMB) ==
    index.st # "missing" /\ index.size >= maxCacheMB * MB

\* whether Registry.read clears the cache directory
readResets(maxCacheMB) ==
    index.st # "missing" /\ index.size > maxCacheMB * MB

\* Registry.read as it would be if an entry whose file is missing failed the
\* read like an entry that cannot be loaded
readResult_allOrNothing(maxSize, maxCacheMB, strict, ioFail) ==
    IF index.st = "missing" THEN <<>>
    ELSE IF readResets(maxCacheMB) THEN <<>>
    ELSE IF index.st = "garbage" THEN <<>>
    ELSE LET rs == [k \in 1..Len(index.items) |->
                       fromJSON(index.items[k], blobs, strict, ioFail)]
         IN IF \E k \in 1..Len(rs) : rs[k].st # "entry" THEN <<>>
            ELSE read(filterNull(rs), maxSize)

\* the list Registry.read resolves to
readResult(maxSize, maxCacheMB, strict, ioFail) ==
    IF index.st = "missing" THEN <<>>
    ELSE IF readResets(maxCacheMB) THEN <<>>
    ELSE IF index.st = "garbage" THEN <<>>
    ELSE LET rs == [k \in 1..Len(index.items) |->
                       fromJSON(index.items[k], blobs, strict, ioFail)]
         IN IF \E k \in 1..Len(rs) : rs[k].st = "reject" THEN <<>>
            ELSE read(filterNull(rs), maxSize)

NoIndex == [st |-> "missing", size |-> 0, items |-> <<>>]

\* Registry.read(maxSize, maxCacheMB), from the call to the resolution of
\* its promise
registryRead(maxSize, maxCacheMB, strict, ioFail) ==
    /\ IF readResets(maxCacheMB)
       THEN readOut' = Reset /\ index' = NoIndex /\ blobs' = {}
       ELSE /\ readOut' = Resolved(readResult(maxSize, maxCacheMB,
                                              strict, ioFail))
            /\ UNCHANGED <<index, blobs>>
    /\ UNCHANGED <<indexWrites, blobWrites, mem, writes>>

\* a write of writeEntryFile in flight: the file, the bytes, and the call
\* that started it (the by-th Registry.write, for its at-th entry; 0, 0 for a
\* menu item's icon)
BlobWrite(name, bytes, by, at) ==
    [name |-> name, bytes |-> bytes, by |-> by, at |-> at]

\* writeEntryFile as it would be if the stream were opened for appending
blobWritten_append(w) ==
    /\ w \in blobWrites
    /\ blobWrites' = blobWrites \ {w}
    /\ blobs' = {f \in blobs : f.name # w.name}
                 \cup {Blob(w.name, f.bytes \o w.bytes) :
                          f \in {g \in blobs : g.name = w.name}}
                 \cup (IF \E g \in blobs : g.name = w.name THEN {}
                       ELSE {Blob(w.name, w.bytes)})
    /\ UNCHANGED <<index, indexWrites, mem, writes, readOut>>

\* a write of writeEntryFile finishes (replace_async, write_bytes_async,
\* close): the file of that name holds the bytes written
blobWritten(w) ==
    /\ w \in blobWrites
    /\ blobWrites' = blobWrites \ {w}
    /\ blobs' = {f \in blobs : f.name # w.name} \cup {Blob(w.name, w.bytes)}
    /\ UNCHANGED <<index, indexWrites, mem, writes, readOut>>

\* the replace/write/close chain of one Registry.write finishes
indexWritten(i) ==
    /\ i \in 1..Len(indexWrites)
    /\ index' = [st |-> "json", size |-> Len(indexWrites[i]),
                 items |-> indexWrites[i]]
    /\ indexWrites' = SubSeq(indexWrites, 1, i - 1)
                         \o SubSeq(indexWrites, i + 1, Len(indexWrites))
    /\ UNCHANGED <<blobs, blobWrites, mem, writes, readOut>>

\* the effect of Registry.write(entries) on the I/O in flight: a blob write
\* for every image entry whose file does not exist, and the index write
startWrite(entries) ==
    /\ indexWrites' = Append(indexWrites, Items(entries))
    /\ blobWrites' = blobWrites \cup
          {BlobWrite(getEntryFilename(entries[k]), entries[k].bytes,
                     writes + 1, k) :
              k \in {j \in 1..Len(entries) :
                        /\ isImage(entries[j].mimetype)
                        /\ ~\E f \in blobs :
                              f.name = getEntryFilename(entries[j])}}

\* Registry.write(mem)
registryWrite ==
    /\ writes < MaxWrites
    /\ writes' = writes + 1
    /\ startWrite(mem)
    /\ readOut' = NoRead
    /\ UNCHANGED <<index, blobs, mem>>

\* entries a history can hold: "hi" as text, two images with the same bytes
\* and different types, and "ho" under a mimetype that is neither text nor
\* image (the peer may send any)
RegEntries == {ClipboardEntry("text/plain;charset=utf-8", <<104, 105>>),
               ClipboardEntry("image/png", <<1, 2>>),
               ClipboardEntry("image/jpeg", <<1, 2>>),
               ClipboardEntry("application/x-color", <<104, 111>>)}

Histories == {h \in SeqsUpTo(RegEntries, MaxMem) : NoDup(h)}

\* the cache-file-size setting, in megabytes
CacheMBs == {10}

\* sizes of the index file found at startup: small, at the limit, above it
IndexSizes == {1, 10 * MB, 10 * MB + 1}

\* the files writeEntryFile has written for the images of a history
BlobsOf(h) ==
    {Blob(getEntryFilename(h[k]), h[k].bytes) :
        k \in {j \in 1..Len(h) : isImage(h[j].mimetype)}}

\* a cache directory as an earlier session can have left it (its index
\* written from a history, its image files there or deleted), or with an
\* index that does not parse, or none; and the entries to write
InitReg ==
    /\ mem \in Histories
    /\ \E h \in Histories, st \in {"missing", "garbage", "json"},
          size \in IndexSizes, kept \in BOOLEAN :
          /\ index = IF st = "missing" THEN NoIndex
                     ELSE [st |-> st, size |-> size,
                           items |-> IF st = "json" THEN Items(h) ELSE <<>>]
          /\ blobs = IF kept THEN BlobsOf(h) ELSE {}
    /\ indexWrites = <<>>
    /\ blobWrites = {}
    /\ writes = 0
    /\ readOut = NoRead
    /\ blobDeletes = {}

\* a step of the Registry: the clients' variables stay
Reg(A) == A /\ UNCHANGED <<syncVars, histVars, eqVars, delVars>>

NextReg ==
    \/ Reg(registryWrite)
    \/ \E maxSize \in 1..MaxMem, maxCacheMB \in CacheMBs,
          strict \in BOOLEAN, ioFail \in BOOLEAN :
          Reg(registryRead(maxSize, maxCacheMB, strict, ioFail))
    \/ \E i \in 1..MaxWrites : Reg(indexWritten(i))
    \/ \E w \in blobWrites : Reg(blobWritten(w))

\* the limits Registry.read can be called with: none (0) up to MaxMem
ReadSizes == 0..MaxMem

\* reads only, of every cache directory of InitReg, with every limit
NextRead ==
    \E maxSize \in ReadSizes, maxCacheMB \in CacheMBs,
       strict \in BOOLEAN, ioFail \in BOOLEAN :
       Reg(registryRead(maxSize, maxCacheMB, strict, ioFail))

\* the steps at which the replace/write/close chain of Registry.write can
\* fail: replace_finish, write_bytes_finish, stream.close
WriteSteps == {"open", "write", "close"}

\* the replace/write/close chain of one Registry.write fails at a step,
\* after kept of its bytes went to the replace stream: replace_finish
\* throws and nothing is written; write_bytes_finish throws, the error is
\* logged and the finally block closes the stream, which puts what the
\* stream holds in the place of the index; close throws and the index
\* stays
indexWriteFails(i, step, kept) ==
    /\ i \in 1..Len(indexWrites)
    /\ kept \in 0..Len(indexWrites[i])
    /\ index' = IF step = "write"
                THEN [st |-> "garbage", size |-> kept, items |-> <<>>]
                ELSE index
    /\ indexWrites' = SubSeq(indexWrites, 1, i - 1)
                         \o SubSeq(indexWrites, i + 1, Len(indexWrites))
    /\ UNCHANGED <<blobs, blobWrites, mem, writes, readOut>>

\* writes only, each ending well or failing
NextWrite ==
    \/ Reg(registryWrite)
    \/ \E i \in 1..MaxWrites : Reg(indexWritten(i))
    \/ \E i \in 1..MaxWrites, step \in WriteSteps, kept \in 0..MaxMem :
          Reg(indexWriteFails(i, step, kept))
    \/ \E w \in blobWrites : Reg(blobWritten(w))

\* ------------------------------------- ClipboardEntry.equals on its own

\* entries to compare: text of two types, images of two types, two images
\* whose bytes differ and whose hashes agree, a text that reads like the
\* string value of an image, an entry that is neither text nor image, and a
\* text with the bytes of an image
EqEntries ==
    {ClipboardEntry("text/plain;charset=utf-8", <<104, 105>>),
     ClipboardEntry("UTF8_STRING", <<104, 105>>),
     ClipboardEntry("text/plain;charset=utf-8", <<104, 111>>),
     ClipboardEntry("image/png", <<1, 2>>),
     ClipboardEntry("image/jpeg", <<1, 2>>),
     ClipboardEntry("image/png", <<1, 34>>),
     ClipboardEntry("image/png", <<2, 1>>),
     ClipboardEntry("text/plain;charset=utf-8",
                    getStringValue(ClipboardEntry("image/png", <<1, 2>>))),
     ClipboardEntry("application/x-color", <<104, 105>>),
     ClipboardEntry("text/plain", <<1, 2>>)}

NoEq == [done |-> FALSE, ab |-> FALSE, ba |-> FALSE]

InitEq ==
    /\ entryA \in EqEntries
    /\ entryB \in EqEntries
    /\ eqOut = NoEq

\* entryA.equals(entryB) and entryB.equals(entryA)
entryEquals ==
    /\ eqOut' = [done |-> TRUE,
                 ab |-> equals(entryA, entryB),
                 ba |-> equals(entryB, entryA)]
    /\ UNCHANGED <<entryA, entryB>>

\* a comparison: everything else stays
Eq(A) == A /\ UNCHANGED <<syncVars, histVars, regVars, delVars>>

NextEq == Eq(entryEquals)

\* no comparison under way, for the other specifications
EqIdle ==
    /\ entryA = ClipboardEntry("text/plain;charset=utf-8", <<104, 105>>)
    /\ entryB = entryA
    /\ InitEq

\* no cache directory and no I/O, for the specifications that leave the
\* Registry out
RegIdle ==
    /\ mem = <<>>
    /\ index = NoIndex
    /\ blobs = {}
    /\ InitReg

\* the coordinator at rest, for the specifications of the sync client
HistIdle ==
    /\ historySize = 1
    /\ pendingRead = [busy |-> TRUE, entries |-> <<>>]
    /\ InitHist

\* the sync client at rest, for the specification of the coordinator
SyncIdle == enabled = FALSE /\ peerOwned = FALSE /\ InitSync

\* the sync client as constructed, beside an idle coordinator
InitClient == HistIdle /\ RegIdle /\ EqIdle /\ InitSync

SpecSync == InitClient /\ [][NextSync]_vars

SpecSend == InitClient /\ [][NextSend]_vars

\* ------------------------------------------------ bus operations that fail

\* updateSettings({enabled: true}) when Gio.bus_watch_name throws: #enabled
\* and the state are set (sync.js 82, 137), #nameWatcherId is not, and the
\* exception leaves #watchBus and updateSettings, neither of which has a
\* try block
watchFails ==
    /\ ~enabled /\ nameWatcherId = 0 /\ ~destroyed
    /\ Quiet
    /\ UNCHANGED <<peerOwned, peerState, ctor>>
    /\ Commit(setState([Client EXCEPT !.enabled = TRUE], "connecting"))
    /\ threw' = TRUE

\* the operations of the completion callback after the proxy exists
\* (sync.js 200-220): signal_subscribe, connect, the read of State
ProxySteps == {"subscribe", "connect", "read"}

\* the completion callback of Gio.DBusProxy.new when one of its operations
\* after new_finish throws: what came before it in the callback is done,
\* the rest is not, and the exception leaves the callback (the try block,
\* sync.js 191-197, ends before them)
proxyDoneFails(i, step) ==
    /\ ctor[i].st = "loaded"
    /\ ~destroyed /\ enabled
    /\ Quiet
    /\ UNCHANGED <<peerOwned, peerState>>
    /\ ctor' = [ctor EXCEPT ![i] = [st |-> "done", cache |-> NoArg]]
    /\ LET c1 == [Client EXCEPT !.proxy = i]
           c2 == [c1 EXCEPT !.signalSubId = i, !.subs = @ \cup {i}]
           c3 == [c2 EXCEPT !.propChangedId = i, !.handlers = @ \cup {i}]
       IN Commit(CASE step = "subscribe" -> c1
                   [] step = "connect" -> c2
                   [] step = "read" -> c3)
    /\ threw' = TRUE

\* send when GLib.base64_encode or #proxy.call throws: the catch block
\* (sync.js 116-118) logs, no call is on the bus
sendFails(mimetype, bytes) ==
    /\ proxy # 0 /\ enabled /\ state \in ACTIVE_SEND_STATES
    /\ req' = [mimetype |-> mimetype, bytes |-> bytes]
    /\ recv' = 0
    /\ call' = NoCall
    /\ Commit(Client)
    /\ UNCHANGED <<peerOwned, peerState, ctor>>

\* a step of the sync client that ends with an exception
Fault(A) ==
    A /\ Alone /\ UNCHANGED <<histVars, regVars, eqVars, delVars>>

\* the life cycle of the client on a bus whose operations may fail
NextFault ==
    \/ \E e \in BOOLEAN : Sync(updateSettings(e))
    \/ Sync(send("text/plain", [len |-> 3]))
    \/ Sync(sendFails("text/plain", [len |-> 3]))
    \/ Sync(destroy)
    \/ Sync(onNameAppeared)
    \/ Sync(onNameVanished)
    \/ \E i \in 1..Len(ctor) : Sync(proxyLoad(i))
    \/ \E i \in 1..Len(ctor) : Sync(proxyDone(i))
    \/ \E v \in PeerStates : Sync(propertiesChanged(v))
    \/ \E w \in BOOLEAN, n \in SignalLens : Sync(onSignal(w, n))
    \/ \E v \in PeerStates : Sync(peerStart(v))
    \/ Sync(peerStop)
    \/ Fault(watchFails)
    \/ \E i \in 1..Len(ctor), step \in ProxySteps :
          Fault(proxyDoneFails(i, step))

InitFault == HistIdle /\ RegIdle /\ EqIdle /\ InitSync

SpecFault == InitFault /\ [][NextFault]_vars

\* the coordinator as initialised, beside an idle sync client
InitIndicator == SyncIdle /\ RegIdle /\ EqIdle /\ InitHist

SpecHist == InitIndicator /\ [][NextHist]_vars

\* ------------------------------------- the coordinator with its Registry

\* while persistence is watched the peer sends "hi" and applications copy
\* "ho": the history holds text, and the only file written is the index
Received == {ClipboardEntry("text/plain;charset=utf-8", <<104, 105>>)}

Copied == {ClipboardEntry("text/plain;charset=utf-8", <<104, 111>>)}

\* the image entries of a history
Images(items) ==
    {Entries(items)[k] : k \in {j \in 1..Len(items) :
                                   isImage(items[j].entry.mimetype)}}

\* a handler of the coordinator runs, with what it does to the cache
\* directory: when it called registry.write, the write starts with the
\* entries of the history (_flushCache maps clipItemsRadioGroup to its
\* entries); otherwise the file of every image it removed is deleted
\* (deleteEntryFile) and the file of every image it added is written unless
\* it exists (_setEntryLabel, getEntryAsImage)
Persist(A) ==
    /\ A
    /\ UNCHANGED <<syncVars, eqVars, delVars>>
    /\ IF wrote'
       THEN /\ writes < MaxWrites
            /\ writes' = writes + 1
            /\ startWrite(Entries(clipItemsRadioGroup))
            /\ UNCHANGED <<index, blobs, mem, readOut>>
       ELSE LET removed == Images(clipItemsRadioGroup)
                              \ Images(clipItemsRadioGroup')
                added == Images(clipItemsRadioGroup')
                            \ Images(clipItemsRadioGroup)
            IN /\ blobs' = {f \in blobs :
                               \A e \in removed :
                                  f.name # getEntryFilename(e)}
               /\ blobWrites' = blobWrites \cup
                     {BlobWrite(getEntryFilename(e), e.bytes, 0, 0) :
                         e \in {a \in added :
                                   ~\E f \in blobs :
                                       f.name = getEntryFilename(a)}}
               /\ UNCHANGED <<index, indexWrites, mem, writes, readOut>>

NextPersist ==
    \/ \E expired, changed \in BOOLEAN : Persist(buildMenu(expired, changed))
    \/ \E c \in Received : Persist(onRemoteClipboard(c.mimetype, c.bytes))
    \/ Persist(clearRemoteHash)
    \/ Persist(refreshIndicator)
    \/ Persist(getContent)
    \/ Persist(refreshDone)
    \/ \E i \in 1..MaxIndex : Persist(removeEntry(i))
    \/ Persist(clearHistory)
    \/ \E n \in 1..MaxHistorySize : Persist(onSettingsChange(n))
    \/ Persist(flushCache)
    \/ Persist(destroyIndicator)
    \/ \E c \in Copied : Persist(copy(c))
    \/ \E i \in 1..MaxWrites : Reg(indexWritten(i))

\* ------------------------------------------- the refresh and its guard

\* what the user copies here: a text, and a type the indicator does not
\* read, for which every get_content comes back empty
RefreshCopies == Copied \cup {ClipboardEntry("text/html", <<104, 105>>)}

\* the coordinator with a read that may throw, after a first start
NextRefresh ==
    \/ \E expired, changed \in BOOLEAN : Hist(buildMenu(expired, changed))
    \/ \E c \in Received : Hist(onRemoteClipboard(c.mimetype, c.bytes))
    \/ Hist(clearRemoteHash)
    \/ Hist(refreshIndicator)
    \/ Hist(getContent)
    \/ Hist(refreshThrows)
    \/ Hist(refreshDone)
    \/ Hist(clearHistory)
    \/ \E n \in 1..MaxHistorySize : Hist(onSettingsChange(n))
    \/ Hist(destroyIndicator)
    \/ \E c \in RefreshCopies : Hist(copy(c))

InitRefresh ==
    /\ pendingRead = [busy |-> TRUE, entries |-> <<>>]
    /\ InitHist
    /\ EqIdle
    /\ SyncIdle
    /\ RegIdle

\* the read in flight always comes to its end: every get_content is raced
\* against a timer of 1500 ms (src/extension.js 536-552), and the
\* continuation runs on the main loop
SpecRefresh ==
    InitRefresh /\ [][NextRefresh]_vars /\ WF_vars(Hist(refreshDone))

\* a first start: nothing saved yet
InitPersist ==
    /\ pendingRead = [busy |-> TRUE, entries |-> <<>>]
    /\ InitHist
    /\ EqIdle
    /\ SyncIdle
    /\ RegIdle

SpecPersist == InitPersist /\ [][NextPersist]_vars

\* ------------------------------------------- the image files of the history

\* what the peer sends here: an image, and a text that can evict it
BlobContents == {ClipboardEntry("image/png", <<1, 2>>),
                 ClipboardEntry("text/plain;charset=utf-8", <<104, 105>>)}

\* a handler of the coordinator runs, with what it does to the image files:
\* deleteEntryFile starts a delete_async for every image it removed;
\* getEntryAsImage (from _setEntryLabel) starts a write for every image it
\* added whose file does not exist at that moment; when it called
\* registry.write, the write starts with the entries of the history
Own(A) ==
    /\ A
    /\ UNCHANGED <<syncVars, eqVars>>
    /\ IF wrote'
       THEN /\ writes < MaxWrites
            /\ writes' = writes + 1
            /\ startWrite(Entries(clipItemsRadioGroup))
            /\ UNCHANGED <<index, blobs, mem, readOut, blobDeletes>>
       ELSE LET removed == Images(clipItemsRadioGroup)
                              \ Images(clipItemsRadioGroup')
                added == Images(clipItemsRadioGroup')
                            \ Images(clipItemsRadioGroup)
            IN /\ blobDeletes' = blobDeletes \cup
                     {getEntryFilename(e) : e \in removed}
               /\ blobWrites' = blobWrites \cup
                     {BlobWrite(getEntryFilename(e), e.bytes, 0, 0) :
                         e \in {a \in added :
                                   ~\E f \in blobs :
                                       f.name = getEntryFilename(a)}}
               /\ UNCHANGED <<index, blobs, indexWrites, mem, writes,
                              readOut>>

\* a delete_async of deleteEntryFile finishes: the file is gone (when there
\* was none, delete_finish throws and the error is ignored)
blobDeleted(name) ==
    /\ name \in blobDeletes
    /\ blobDeletes' = blobDeletes \ {name}
    /\ blobs' = {f \in blobs : f.name # name}
    /\ UNCHANGED <<index, indexWrites, blobWrites, mem, writes, readOut>>
    /\ UNCHANGED <<syncVars, histVars, eqVars>>

NextBlobs ==
    \/ \E expired, changed \in BOOLEAN : Own(buildMenu(expired, changed))
    \/ \E c \in BlobContents : Own(onRemoteClipboard(c.mimetype, c.bytes))
    \/ \E i \in 1..MaxIndex : Own(removeEntry(i))
    \/ Own(clearHistory)
    \/ \E n \in 1..MaxHistorySize : Own(onSettingsChange(n))
    \/ Own(flushCache)
    \/ Own(destroyIndicator)
    \/ \E i \in 1..MaxWrites : Reg(indexWritten(i))
    \/ \E w \in blobWrites : Reg(blobWritten(w))
    \/ \E name \in blobDeletes : blobDeleted(name)

\* a first start: nothing saved yet
InitBlobs ==
    /\ pendingRead = [busy |-> TRUE, entries |-> <<>>]
    /\ InitHist
    /\ EqIdle
    /\ SyncIdle
    /\ RegIdle

SpecBlobs == InitBlobs /\ [][NextBlobs]_vars

\* the Registry on its own, beside idle clients
InitRegistry == SyncIdle /\ HistIdle /\ EqIdle /\ InitReg

SpecReg == InitRegistry /\ [][NextReg]_vars

\* Registry.read on its own
InitRead == SyncIdle /\ HistIdle /\ EqIdle /\ InitReg

SpecRead == InitRead /\ [][NextRead]_vars

\* Registry.write on its own, with its failures
InitWrite == SyncIdle /\ HistIdle /\ EqIdle /\ InitReg

SpecWrite == InitWrite /\ [][NextWrite]_vars

\* comparisons on their own, beside idle clients and an idle Registry
InitCompare == SyncIdle /\ HistIdle /\ RegIdle /\ InitEq

SpecEq == InitCompare /\ [][NextEq]_vars

\* ------------------------------------------------------------------ claims

\* C1: content that _onRemoteClipboard applied to the clipboard is not handed
\* to sync.send by a refresh: what a refresh sends while the timer armed by
\* the last inbound entry has not yet fired was put on the clipboard locally,
\* not by the peer.
C1_NoEcho == (sent # NoSend /\ remoteHashTimeout) => sent.origin # "peer"

\* C2: after every operation the history holds at most MAX_REGISTRY_LENGTH
\* entries.
C2_Bounded == Len(clipItemsRadioGroup) <= MAX_REGISTRY_LENGTH

\* C3: the history never holds two entries that are equals() to each other,
\* and a change (a finished clipboard read, an inbound peer entry) whose
\* content equals an entry of the history selects that entry and leaves the
\* entries and their order as they were.
C3_NoDuplicates ==
    /\ [](NoDup(Entries(clipItemsRadioGroup)))
    /\ [][/\ (/\ refreshDone
              /\ ~cDestroyed
              /\ got.entry # NoEntry
              /\ indexOfEqual(clipItemsRadioGroup, got.entry) # 0)
             => /\ Entries(clipItemsRadioGroup') = Entries(clipItemsRadioGroup)
                /\ clipItemsRadioGroup'[indexOfEqual(clipItemsRadioGroup,
                                        got.entry)].currentlySelected
          /\ \A c \in Contents :
                (/\ onRemoteClipboard(c.mimetype, c.bytes)
                 /\ menuReady /\ ~cDestroyed
                 /\ indexOfEqual(clipItemsRadioGroup, c) # 0)
                => /\ Entries(clipItemsRadioGroup') =
                          Entries(clipItemsRadioGroup)
                   /\ clipItemsRadioGroup'[indexOfEqual(clipItemsRadioGroup,
                                           c)].currentlySelected]_vars

\* an inbound UTF8_STRING "hi" met the older of two entries, "hi" held as
\* text/plain;charset=utf-8, and selected it
C3_Witness ==
    /\ Len(clipItemsRadioGroup) = 2
    /\ clipItemsRadioGroup[1].entry =
          ClipboardEntry("text/plain;charset=utf-8", <<104, 105>>)
    /\ clipItemsRadioGroup[1].currentlySelected
    /\ clipboard = Clip(ClipboardEntry("UTF8_STRING", <<104, 105>>), "peer")
    /\ lastReceivedHash = <<104, 105>>

\* C4: a SendClipboard bus call is issued only by a send made while a proxy
\* exists, sync is enabled, the state is 'connected' or 'listening' and both
\* arguments are present (send changes none of these, so they are read in
\* the state the call leaves).
C4_SendOnlyWhenReady ==
    call # NoCall =>
        /\ call.method = "SendClipboard"
        /\ proxy # 0
        /\ enabled
        /\ state \in ACTIVE_SEND_STATES
        /\ req # NoReq
        /\ req.mimetype # NoArg
        /\ req.bytes # NoBytes

C4_Witness == call # NoCall /\ state = "listening" /\ req.bytes = [len |-> 3]

\* C5: a name-vanished event processed by an enabled, live client leaves no
\* active signal subscription and no property handler, no proxy, and the
\* state 'disconnected'.
C5_VanishDisconnects ==
    [][(onNameVanished /\ enabled /\ ~destroyed) =>
        (state' = "disconnected" /\ proxy' = 0 /\ subs' = {}
         /\ handlers' = {})]_vars

\* C6: after sync is switched on from 'disabled' with no peer on the bus, the
\* state is not 'connected' for as long as the peer stays absent.
C6_NeverConnectedAlone == enabledAlone => state # "connected"

\* C7: once destroy has run, no step notifies a state, delivers an inbound
\* entry or issues a bus call.
C7_DestroyLatch == destroyed => (notes = <<>> /\ recv = 0 /\ call = NoCall)

\* C8: once destroy has run, no signal subscription, no property handler and
\* no name watch of the client is active.
C8_Released == destroyed => (subs = {} /\ handlers = {} /\ busWatch = "none")

\* C9: switching sync off on an enabled (and live) client removes the name
\* watch and every subscription, drops the proxy and forces 'disabled' with
\* one notification; updateSettings with the current value changes nothing.
C9_DisableTearsDown ==
    [][/\ (updateSettings(FALSE) /\ enabled /\ ~destroyed) =>
            (busWatch' = "none" /\ subs' = {} /\ handlers' = {}
             /\ proxy' = 0 /\ state' = "disabled"
             /\ notes' = <<"disabled">>)
       /\ \A e \in BOOLEAN : (updateSettings(e) /\ e = enabled) =>
            (notes' = <<>> /\ UNCHANGED <<enabled, state, destroyed,
                nameWatcherId, signalSubId, propChangedId, busConnection,
                proxy, busWatch, subs, handlers>>)]_vars

\* C10: a send whose encoded payload is longer than MAX_SYNC_SIZE issues no
\* bus call; one at or below it is sent when the other preconditions hold;
\* and no send changes the state, the proxy or the subscriptions.
C10_SizeCap ==
    /\ [](req # NoReq /\ req.bytes # NoBytes =>
            IF Base64Len(req.bytes.len) > MAX_SYNC_SIZE THEN call = NoCall
            ELSE (proxy # 0 /\ enabled /\ state \in ACTIVE_SEND_STATES
                  /\ req.mimetype \notin {NoArg, ""}) =>
                 call = [method |-> "SendClipboard",
                         mimetype |-> req.mimetype,
                         datalen |-> Base64Len(req.bytes.len)])
    /\ [][req' # NoReq => UNCHANGED <<enabled, state, destroyed,
            nameWatcherId, signalSubId, propChangedId, busConnection, proxy,
            busWatch, subs, handlers>>]_vars

C10_Witness ==
    /\ req # NoReq
    /\ req.bytes = [len |-> 15728640]
    /\ req.mimetype = "text/plain"
    /\ proxy # 0 /\ enabled /\ state = "connected"
    /\ call = NoCall

\* C11: an inbound ClipboardReceived that reaches a live client with a
\* subscription leaves the connection state, the proxy, the subscriptions
\* and the handlers alone and notifies no state; it calls
\* onClipboardReceived exactly once when it is well formed and its data is
\* within MAX_SYNC_SIZE, and not at all otherwise.
C11_InboundOnce ==
    [][\A w \in BOOLEAN, n \in SignalLens :
          (onSignal(w, n) /\ subs # {} /\ ~destroyed)
          => /\ notes' = <<>>
             /\ UNCHANGED <<enabled, state, destroyed, nameWatcherId,
                            signalSubId, propChangedId, busConnection, proxy,
                            busWatch, subs, handlers>>
             /\ recv' = IF w /\ n <= MAX_SYNC_SIZE THEN 1 ELSE 0]_vars

\* C12: the first Registry.read after a Registry.write(mem), made when all
\* the I/O the writes started has finished, and in which no load fails,
\* resolves to mem: the same mimetypes and bytes in the same order, less the
\* oldest entries beyond maxSize.  (Stated for histories whose text entries
\* are ASCII; entries of any other mimetype are included.)
C12_RoundTrip ==
    [][\A maxSize \in 1..MaxMem, strict \in BOOLEAN :
          (/\ registryRead(maxSize, 10, strict, FALSE)
           /\ writes > 0
           /\ readOut = NoRead
           /\ indexWrites = <<>>
           /\ blobWrites = {}
           /\ \A k \in 1..Len(mem) :
                 isText(mem[k].mimetype)
                 => \A j \in 1..Len(mem[k].bytes) : mem[k].bytes[j] < 128)
          => readOut' = Resolved(read(mem, maxSize))]_vars

\* C13: at most one write of the index file is in progress at any time.
C13_OneIndexWriter == Len(indexWrites) <= 1

\* C14: once destroy has run on a built menu and the index writes have
\* finished, the index on disk is the history as it was at destroy time.
C14_NothingLost ==
    (cDestroyed /\ menuReady /\ indexWrites = <<>>)
    => (index.st = "json"
        /\ index.items = Items(Entries(clipItemsRadioGroup)))

\* C15: a handler that changes the history (other than the load at start)
\* leaves a flush timer pending and writes nothing itself; a write outside
\* destroy is started only by a pending timer, which is then no longer
\* pending, and it is one index write carrying the history as it is at that
\* moment.
C15_Debounced ==
    [][/\ (/\ Entries(clipItemsRadioGroup') # Entries(clipItemsRadioGroup)
           /\ menuReady)
          => (cacheWriteTimeout' /\ writes' = writes)
       /\ (writes' # writes /\ cDestroyed' = cDestroyed)
          => /\ cacheWriteTimeout /\ ~cacheWriteTimeout'
             /\ writes' = writes + 1
             /\ indexWrites' = Append(indexWrites,
                                      Items(Entries(clipItemsRadioGroup')))]_vars

\* a burst of two inserts was followed by one write carrying both entries
C15_Witness ==
    /\ wrote /\ ~cDestroyed /\ writes = 1
    /\ Len(clipItemsRadioGroup) = 2
    /\ indexWrites = <<Items(Entries(clipItemsRadioGroup))>>

C17_FailsSoft ==
    [][\A maxSize \in 1..MaxMem, maxCacheMB \in CacheMBs,
          strict \in BOOLEAN, ioFail \in BOOLEAN :
          registryRead(maxSize, maxCacheMB, strict, ioFail)
          => /\ readOut'.st = "resolved"
             /\ index.st \in {"missing", "garbage"} => readOut'.entries = <<>>
             /\ (/\ index.st = "json" /\ index.size <= maxCacheMB * MB
                 /\ ~ioFail
                 /\ \A k \in 1..Len(index.items) :
                       index.items[k].kind # "none")
                => LET Present(it) == \/ it.kind = "text"
                                      \/ \E f \in blobs : f.name = it.path
                       kept == read(SelectSeq(index.items, Present), maxSize)
                       out == readOut'.entries
                   IN /\ Len(out) = Len(kept)
                      /\ \A k \in 1..Len(kept) :
                            /\ out[k].mimetype = kept[k].mimetype
                            /\ kept[k].kind = "path"
                               => \E f \in blobs : /\ f.name = kept[k].path
                                                   /\ f.bytes = out[k].bytes
                            /\ kept[k].kind = "text"
                               => getStringValue(out[k]) = kept[k].text]_vars

\* a read of an index of a text and an image whose file is gone has
\* resolved to the text alone
C17_Witness ==
    /\ writes = 0
    /\ index.st = "json" /\ Len(index.items) = 2
    /\ index.items[1].kind = "text" /\ index.items[2].kind = "path"
    /\ blobs = {}
    /\ readOut.st = "resolved" /\ ~readOut.warned
    /\ Len(readOut.entries) = 1
    /\ readOut.entries[1].mimetype = index.items[1].mimetype

C18_EqualsRule ==
    eqOut.done
    => (eqOut.ab <=>
          \/ /\ ~isImage(entryA.mimetype) /\ ~isImage(entryB.mimetype)
             /\ decode(entryA.bytes) = decode(entryB.bytes)
          \/ /\ isImage(entryA.mimetype) /\ isImage(entryB.mimetype)
             /\ hash(entryA.bytes) = hash(entryB.bytes)
             /\ Len(entryA.bytes) = Len(entryB.bytes))

\* C19: A.equals(B) and B.equals(A) give the same answer, for entries of
\* every combination of types.
C19_Symmetric == eqOut.done => eqOut.ab = eqOut.ba

\* an image and a text were compared, both ways, and found equal
C19_Witness ==
    /\ eqOut.done /\ eqOut.ab /\ eqOut.ba
    /\ isImage(entryA.mimetype) /\ ~isImage(entryB.mimetype)

\* C21: never more than one run of _refreshIndicator is past its guard and
\* unfinished; an owner-changed event handled while one is in flight starts
\* no clipboard read and is not kept for later.
C21_OneRefresh ==
    /\ [](refreshes <= 1 /\ (refreshInProgress <=> refreshes = 1))
    /\ [][(ownerChanged /\ ~ownerChanged' /\ refreshInProgress)
          => UNCHANGED <<refreshInProgress, refreshes, got,
                         clipItemsRadioGroup, clipboard>>]_vars

\* an owner-changed event for new clipboard content was dropped while a
\* refresh that had read the earlier content was in flight
C21_Witness ==
    /\ refreshInProgress /\ ~cDestroyed /\ ~ownerChanged
    /\ got # NoGot
    /\ getClipboardContent(clipboard) # NoEntry
    /\ getClipboardContent(clipboard) # got.entry

\* C22: when a refresh has read an entry whose string value differs from the
\* remembered inbound identity, it calls sync.send with that entry, whether
\* the entry is new to the history or equal to one of its items.
C22_DifferentIsSent ==
    [][(/\ refreshInProgress /\ ~refreshInProgress'
        /\ got.entry # NoEntry /\ ~cDestroyed
        /\ lastReceivedHash # NoHash
        /\ getStringValue(got.entry) # lastReceivedHash)
       => sent' = got]_vars

\* with an inbound identity remembered, an entry already in the history was
\* read again and sent
C22_Witness ==
    /\ sent # NoSend
    /\ lastReceivedHash # NoHash /\ remoteHashTimeout
    /\ getStringValue(sent.entry) # lastReceivedHash
    /\ ~cacheWriteTimeout
    /\ indexOfEqual(clipItemsRadioGroup, sent.entry) # 0

\* C23: once a refresh has processed an entry that does not match the
\* remembered inbound identity, the identity is no longer remembered.
C23_ClearedByNewContent ==
    [][(/\ refreshInProgress /\ ~refreshInProgress'
        /\ got.entry # NoEntry /\ ~cDestroyed
        /\ lastReceivedHash # NoHash
        /\ getStringValue(got.entry) # lastReceivedHash)
       => lastReceivedHash' = NoHash]_vars

\* C29: when the peer announces a value of its State property to an enabled,
\* live client that listens for it, the client's state becomes that very
\* string, and onStateChanged is called with it when it is a change.
C29_StateVerbatim ==
    [][\A v \in PeerStates :
          (propertiesChanged(v) /\ handlers # {} /\ enabled /\ ~destroyed)
          => /\ state' = v
             /\ v # state => notes' = <<v>>]_vars

\* C30: when the completion callback of a proxy construction runs in an
\* enabled, live client: after a success the proxy is set, the signal and
\* the property changes are subscribed, and the state is the State the peer
\* advertised, or 'connecting' when none could be read; after a failure
\* there is no proxy, nothing is subscribed and the state is 'disconnected'.
C30_ProxyCompletion ==
    [][\A i \in 1..Len(ctor) :
          (proxyDone(i) /\ enabled /\ ~destroyed)
          => IF ctor[i].st = "loaded"
             THEN /\ proxy' = i
                  /\ i \in subs' /\ signalSubId' = i
                  /\ i \in handlers' /\ propChangedId' = i
                  /\ state' = IF ctor[i].cache # NoArg THEN ctor[i].cache
                              ELSE "connecting"
             ELSE /\ proxy' = 0
                  /\ subs' = {} /\ handlers' = {}
                  /\ state' = "disconnected"]_vars

\* C26 (as stated): Registry.read(maxCount) resolves to at most maxCount
\* entries, for every maxCount.
C26_AtMost ==
    [][\A maxSize \in 0..MaxMem, maxCacheMB \in CacheMBs,
          strict \in BOOLEAN, ioFail \in BOOLEAN :
          registryRead(maxSize, maxCacheMB, strict, ioFail)
          => Len(readOut'.entries) <= maxSize]_vars

\* C26 (amended): Registry.read(maxCount) with maxCount >= 1 resolves to the
\* newest maxCount entries of the parsed index in their order (all of them
\* when there are no more than maxCount); with maxCount = 0 it resolves to
\* all entries of the parsed index.
C26_NewestKept ==
    [][\A maxSize \in 0..MaxMem, maxCacheMB \in CacheMBs,
          strict \in BOOLEAN, ioFail \in BOOLEAN :
          (index.st = "json" /\ index.size <= maxCacheMB * MB
           /\ registryRead(maxSize, maxCacheMB, strict, ioFail))
          => LET rs == [k \in 1..Len(index.items) |->
                           fromJSON(index.items[k], blobs, strict, ioFail)]
                 parsed == IF \E k \in 1..Len(rs) : rs[k].st = "reject"
                           THEN <<>> ELSE filterNull(rs)
                 n == Len(parsed)
                 out == readOut'.entries
             IN IF maxSize = 0 \/ n <= maxSize THEN out = parsed
                ELSE out = SubSeq(parsed, n - maxSize + 1, n)]_vars

\* a read with maxCount 1 of an index of two loadable entries has resolved
\* to the newer one
C26_Witness ==
    /\ writes = 0
    /\ index.st = "json" /\ index.size <= 10 * MB /\ Len(index.items) = 2
    /\ index.items[1].kind = "text" /\ index.items[2].kind = "path"
    /\ \E f \in blobs : f.name = index.items[2].path
    /\ readOut.st = "resolved"
    /\ Len(readOut.entries) = 1
    /\ readOut.entries[1].mimetype = index.items[2].mimetype

\* C25: whenever the chain of a Registry.write fails, at the opening of the
\* replace stream or at the writing of the bytes, the index on disk stays as
\* it was.
C25_FailedWriteKeepsIndex ==
    [][\A i \in 1..MaxWrites, step \in {"open", "write"}, kept \in 0..MaxMem :
          indexWriteFails(i, step, kept) => index' = index]_vars

\* C28: the guard loses no change of the clipboard: when a refresh that has
\* read content is over and no owner-changed event is waiting, so that
\* nothing will start another read, the content the user copied last, not
\* in the history before, is in the history.
C28_LastChangeRecorded ==
    [][(/\ refreshInProgress /\ ~refreshInProgress'
        /\ got # NoGot /\ ~cDestroyed /\ ~cDestroyed'
        /\ ~ownerChanged'
        /\ clipboard.origin = "local" /\ clipboard' = clipboard
        /\ getClipboardContent(clipboard) # NoEntry
        /\ indexOfEqual(clipItemsRadioGroup,
                        getClipboardContent(clipboard)) = 0)
       => indexOfEqual(clipItemsRadioGroup',
                       getClipboardContent(clipboard')) # 0]_vars

\* C27: every refresh that has set the in-progress flag clears it in the
\* end, whatever the read delivers and whether or not the indicator is
\* destroyed meanwhile.
C27_GuardReleased == refreshInProgress ~> ~refreshInProgress

\* a refresh is in flight, the indicator has been destroyed meanwhile and
\* the clipboard has nothing to answer with
C27_Witness ==
    /\ refreshInProgress /\ cDestroyed /\ got = NoGot
    /\ getClipboardContent(clipboard) = NoEntry

\* C24: no method and no bus callback of MountLinkSync ends with an
\* exception, whichever bus operation fails in it.
C24_NoFaultEscapes == ~threw

\* C31: in every reachable state the client's state is one of disabled,
\* connecting, connected, listening, disconnected, error, stopped.
C31_SevenStates ==
    state \in {"disabled", "connecting", "connected", "listening",
               "disconnected", "error", "stopped"}

\* C33: while #enabled is false the state is 'disabled' and there is no
\* proxy; no step that leaves #enabled false changes the state, the proxy
\* or the subscriptions; the state leaves 'disabled' only in the step that
\* switches sync on.
C33_DisabledIsQuiet ==
    /\ [](~enabled => (state = "disabled" /\ proxy = 0))
    /\ [][(~enabled /\ ~enabled') => UNCHANGED <<state, proxy, subs>>]_vars
    /\ [][(state = "disabled" /\ state' # "disabled")
          => (~enabled /\ enabled')]_vars

\* C36: from a processed name-vanished event until the next name-appeared
\* event the client has no proxy, no active subscription and no property
\* handler, and its state is neither 'connected' nor 'listening'.
C36_VanishedStaysDown ==
    (busWatch = "vanished" /\ ~destroyed)
    => /\ proxy = 0 /\ subs = {} /\ handlers = {}
       /\ state \notin {"connected", "listening"}

\* C37: the client never has more than one active ClipboardReceived
\* subscription nor more than one connected property-change handler.
C37_OneSubscription == Cardinality(subs) <= 1 /\ Cardinality(handlers) <= 1

\* C38: while sync is switched off, a ClipboardReceived signal of the peer
\* leads to no call of onClipboardReceived.
C38_NoInboundWhileDisabled ==
    [][\A w \in BOOLEAN, n \in SignalLens :
          (onSignal(w, n) /\ ~enabled) => recv' = 0]_vars

\* C32: whenever a step (the constructor included) has called
\* onStateChanged, it has called it once, with the value the getter returns
\* after it; every step that changes the state calls it exactly once, with
\* the new value, and a step that leaves the state as it was calls it not at
\* all: so no change goes unnotified and no value is notified twice in a
\* row.
C32_NotifiedOncePerChange ==
    /\ [](notes # <<>> => notes = <<state>>)
    /\ [][IF state' # state THEN notes' = <<state'>>
          ELSE notes' = <<>>]_vars

\* the peer has changed its State to 'listening' while two property
\* handlers were connected: one notification
C32_Witness ==
    /\ Cardinality(handlers) = 2 /\ peerOwned /\ peerState = "listening"
    /\ state = "listening" /\ notes = <<"listening">>

\* C34: as long as the menu is not ready no Registry.write has been issued:
\* no step has written, no index write is in flight, the index is as it was.
C34_NoWriteBeforeLoad ==
    ~menuReady => (~wrote /\ writes = 0 /\ indexWrites = <<>>
                   /\ index = NoIndex)

\* the history-size setting changed during the load and the indicator was
\* destroyed before the load ended: _onSettingsChange and the flush of
\* destroy have both returned at their guards
C34_Witness ==
    /\ ~menuReady /\ cDestroyed /\ ~pendingRead.busy
    /\ historySize # MAX_REGISTRY_LENGTH
    /\ writes = 0

\* C39: once a flush has been made, no flush is pending and every index
\* write that was started has completed, the index on disk holds the
\* entries of the history, oldest first.
C39_IndexConverges ==
    (writes > 0 /\ ~cacheWriteTimeout /\ indexWrites = <<>>)
    => (index.st = "json"
        /\ index.items = Items(Entries(clipItemsRadioGroup)))

\* C35: when no write and no delete of an image file is in flight (and no
\* flush is pending and no index write in flight), the file named by
\* getEntryFilename exists for every image entry of the history.
C35_ImagesOwnBlobs ==
    (menuReady /\ blobWrites = {} /\ blobDeletes = {}
     /\ ~cacheWriteTimeout /\ indexWrites = <<>>)
    => \A e \in Images(clipItemsRadioGroup) :
          \E f \in blobs : f.name = getEntryFilename(e)

\* C40: once destroy has run, no step adds or removes a history entry,
\* makes the menu ready, calls registry.write or calls sync.send, whichever
\* load, read or timer completes afterwards.
C40_InertAfterDestroy ==
    [][cDestroyed => (/\ clipItemsRadioGroup' = clipItemsRadioGroup
                      /\ ~wrote'
                      /\ sent' = NoSend
                      /\ menuReady' = menuReady)]_vars

\* the indicator was destroyed while its history load was in flight: the
\* load has completed since, and the menu was never made ready
C40_Witness ==
    /\ cDestroyed /\ ~pendingRead.busy /\ ~menuReady
    /\ clipItemsRadioGroup = <<>>

====
